---- MODULE Spec2Model ----
(***************************************************************************)
(* Signature verification and trust subsystem of the invoice processor:    *)
(* the OCSP cache (internal/signature/trust/ocsp.go), the OCSP checker,    *)
(* the trust store's revocation check, the XML and PDF verifiers, and the  *)
(* XML parsing pipeline that feeds them: the provider adapters, their      *)
(* registry and the batch processor.                                       *)
(*                                                                         *)
(* The specifications share the variables:                                 *)
(*   Spec          concurrent goroutines calling Get, Set and Clear on one *)
(*                 OCSPCache while the wall clock advances;                *)
(*   VerifySpec    one verification request (XML or PDF) run step by step; *)
(*   StoreSpec     the TrustStore API called in any order on one store;    *)
(*   ResultSpec    the VerificationResult API called in any order;         *)
(*   FunctionSpec  a function of the packages applied to one input;        *)
(*   RegistrySpec  the adapter Registry API called in any order on one     *)
(*                 buffer;                                                 *)
(*   BatchSpec     one ProcessBatch call and its goroutines, and           *)
(*   BatchLiveSpec the same under fair scheduling.                         *)
(***************************************************************************)
EXTENDS Integers, Sequences, FiniteSets, TLC

VARIABLES
    now,        \* wall clock (time.Now), in ticks
    entries,    \* OCSPCache.entries: key -> ocspCacheEntry or NoEntry
    pc,         \* per goroutine: position inside OCSPCache.Get
    tkey,       \* per goroutine: local `key` of the running Get
    got,        \* per goroutine: local `entry` read under RLock
    seen,       \* per goroutine: history, last complete Set on tkey when got was read
    ret,        \* per goroutine: what the last finished Get returned
    hist,       \* history: key -> entry written by the last Set since the last Clear
    vpc,        \* verification request: position inside Verify
    vin,        \* verification request: the input and the environment's answers
    result,     \* verification request: the VerificationResult being built
    rawErr,     \* verification request: the raw error returned next to the result
    vloc,       \* locals of Verify and CheckRevocation; the last API call
    steps,      \* verification request: procedure steps executed, in order
    contacted,  \* verification request: OCSP responders queried, with their answers
    store,      \* the TrustStore: soft-fail option and root pool
    registry,   \* parser Registry.adapters, in probing order
    applied,    \* the last library call: its input and what it returned
    batch       \* a ProcessBatch call: goroutines, error channel, results

cacheVars  == <<now, entries, pc, tkey, got, seen, ret, hist>>
verifyVars == <<vpc, vin, result, rawErr, vloc, steps, contacted, store>>
libVars    == <<registry, applied, batch>>
vars       == <<now, entries, pc, tkey, got, seen, ret, hist,
                vpc, vin, result, rawErr, vloc, steps, contacted, store,
                registry, applied, batch>>

---------------------------------------------------------------------------
(* Bounds *)

MaxTime == 2

TTL == 1

\* TrustStore.ocspTimeout, in ticks.
OcspTimeout == 1

Threads == {"g1", "g2"}

---------------------------------------------------------------------------
(* Certificates and cache keys *)

NilCert == [nil |-> TRUE]

\* An x509.Certificate: issuer and subject DN, serial number, own key and the
\* key that signed it, the OCSP responder URLs it lists, its validity window.
Cert(issuer, subject, serial, key, signedBy, ocsp) ==
    [nil |-> FALSE, issuer |-> issuer, subject |-> subject, serial |-> serial,
     key |-> key, signedBy |-> signedBy, ocsp |-> ocsp,
     notBefore |-> 0, notAfter |-> 99]

RootCA == Cert(<<"C", "A">>, <<"C", "A">>, 7, "kCA", "kCA", <<>>)
CertA  == Cert(<<"C", "A">>, <<"A">>, 1, "kA", "kCA", <<>>)
CertA2 == Cert(<<"C", "A">>, <<"A", "2">>, 1, "kA2", "kCA", <<>>)
CertB  == Cert(<<"C", "A">>, <<"B">>, 12, "kB", "kCA", <<"r1">>)
CertC  == Cert(<<"C", "A">>, <<"C">>, 3, "kC", "kCA", <<"r1", "r2">>)
CertX  == Cert(<<"X">>, <<"E">>, 5, "kE", "kX", <<"r1">>)

\* Certificates the cache goroutines call Get and Set with.
Certs == {CertA, CertA2, CertB}

\* Certificates a signed document may carry.
SignerCerts == {RootCA, CertA, CertC, CertX}

Digits == <<"0", "1", "2", "3", "4", "5", "6", "7", "8", "9">>

RECURSIVE DecString(_)
DecString(n) ==
    IF n < 10 THEN <<Digits[n + 1]>>
    ELSE DecString(n \div 10) \o <<Digits[(n % 10) + 1]>>

certCacheKey(cert) == cert.issuer \o <<":">> \o DecString(cert.serial)

Keys == {certCacheKey(c) : c \in Certs \cup SignerCerts}

---------------------------------------------------------------------------
(* OCSPCache *)

NoEntry == [none |-> TRUE]

NoRet == [kind |-> "none"]

NewOCSPCache == [k \in Keys |-> NoEntry]

Size == Cardinality({k \in Keys : entries[k] # NoEntry})

ExpiredLate(t, entry) == t > entry.expiresAt + 1

Expired(t, entry) == t > entry.expiresAt

StoreEntryPartial(old, notRevoked, t) ==
    IF old = NoEntry
    THEN [notRevoked |-> notRevoked, expiresAt |-> t + TTL]
    ELSE [notRevoked |-> notRevoked, expiresAt |-> old.expiresAt]

StoreEntry(old, notRevoked, t) ==
    [notRevoked |-> notRevoked, expiresAt |-> t + TTL]

CacheInit ==
    /\ now = 0
    /\ entries = NewOCSPCache
    /\ pc = [t \in Threads |-> "idle"]
    /\ tkey = [t \in Threads |-> <<>>]
    /\ got = [t \in Threads |-> NoEntry]
    /\ seen = [t \in Threads |-> NoEntry]
    /\ ret = [t \in Threads |-> NoRet]
    /\ hist = [k \in Keys |-> NoEntry]

\* Get(nil): the early return before any lock is taken.
GetNil(t) ==
    /\ pc[t] = "idle"
    /\ tkey' = [tkey EXCEPT ![t] = <<>>]
    /\ got' = [got EXCEPT ![t] = NoEntry]
    /\ seen' = [seen EXCEPT ![t] = NoEntry]
    /\ ret' = [ret EXCEPT ![t] = [kind |-> "miss", at |-> now]]
    /\ UNCHANGED <<now, entries, pc, hist>>

\* Get, first critical section: RLock; entry, exists := entries[key]; RUnlock.
GetRead(t, cert) ==
    /\ pc[t] = "idle"
    /\ LET key == certCacheKey(cert) IN
        /\ tkey' = [tkey EXCEPT ![t] = key]
        /\ got' = [got EXCEPT ![t] = entries[key]]
        /\ seen' = [seen EXCEPT ![t] = hist[key]]
    /\ pc' = [pc EXCEPT ![t] = "get_check"]
    /\ ret' = [ret EXCEPT ![t] = NoRet]
    /\ UNCHANGED <<now, entries, hist>>

\* Get, outside any lock: !exists -> miss; time.Now().After(expiresAt) ->
\* go on to evict; otherwise hit with entry.notRevoked.  ret.at is the
\* clock value this Get read.
GetCheck(t) ==
    /\ pc[t] = "get_check"
    /\ IF got[t] = NoEntry
       THEN /\ ret' = [ret EXCEPT ![t] = [kind |-> "miss", at |-> now]]
            /\ pc' = [pc EXCEPT ![t] = "idle"]
       ELSE IF Expired(now, got[t])
       THEN /\ ret' = [ret EXCEPT ![t] = [kind |-> "evicting", at |-> now]]
            /\ pc' = [pc EXCEPT ![t] = "get_evict"]
       ELSE /\ ret' = [ret EXCEPT ![t] = [kind |-> "hit", at |-> now]]
            /\ pc' = [pc EXCEPT ![t] = "idle"]
    /\ UNCHANGED <<now, entries, tkey, got, seen, hist>>

\* Get, second critical section: Lock; delete(entries, key); Unlock; miss.
GetEvict(t) ==
    /\ pc[t] = "get_evict"
    /\ entries' = [entries EXCEPT ![tkey[t]] = NoEntry]
    /\ ret' = [ret EXCEPT ![t] = [kind |-> "miss", at |-> ret[t].at]]
    /\ pc' = [pc EXCEPT ![t] = "idle"]
    /\ UNCHANGED <<now, tkey, got, seen, hist>>

\* The locals of the previous Get are dead once the goroutine calls Set or Clear.
DropLocals(t) ==
    /\ tkey' = [tkey EXCEPT ![t] = <<>>]
    /\ got' = [got EXCEPT ![t] = NoEntry]
    /\ seen' = [seen EXCEPT ![t] = NoEntry]
    /\ ret' = [ret EXCEPT ![t] = NoRet]

\* Set: nil is a no-op; otherwise Lock; entries[key] = &entry{...}; Unlock.
Set(t, cert, notRevoked) ==
    /\ pc[t] = "idle"
    /\ IF cert = NilCert
       THEN UNCHANGED <<entries, hist>>
       ELSE LET key == certCacheKey(cert) IN
            /\ entries' = [entries EXCEPT ![key] =
                              StoreEntry(entries[key], notRevoked, now)]
            /\ hist' = [hist EXCEPT ![key] =
                              [notRevoked |-> notRevoked, expiresAt |-> now + TTL]]
    /\ DropLocals(t)
    /\ UNCHANGED <<now, pc>>

\* Clear: Lock; entries = make(map); Unlock.
Clear(t) ==
    /\ pc[t] = "idle"
    /\ entries' = NewOCSPCache
    /\ hist' = [k \in Keys |-> NoEntry]
    /\ DropLocals(t)
    /\ UNCHANGED <<now, pc>>

\* The wall clock advances.
Tick ==
    /\ now < MaxTime
    /\ now' = now + 1
    /\ UNCHANGED <<entries, pc, tkey, got, seen, ret, hist>>

CacheNext ==
    \/ \E t \in Threads : GetNil(t)
    \/ \E t \in Threads, c \in Certs : GetRead(t, c)
    \/ \E t \in Threads : GetCheck(t)
    \/ \E t \in Threads : GetEvict(t)
    \/ \E t \in Threads, c \in Certs \cup {NilCert}, v \in BOOLEAN : Set(t, c, v)
    \/ \E t \in Threads : Clear(t)
    \/ Tick

---------------------------------------------------------------------------
(* Verification request, idle while the cache specification runs *)

VerifyIdle ==
    /\ vpc = "none"
    /\ vin = [kind |-> "none"]
    /\ result = [none |-> TRUE]
    /\ rawErr = "nil"
    /\ vloc = [none |-> TRUE]
    /\ steps = <<>>
    /\ contacted = <<>>
    /\ store = [none |-> TRUE]

\* No parser registry, library call or batch in play.
LibIdle ==
    /\ registry = <<>>
    /\ applied = [none |-> TRUE]
    /\ batch = [none |-> TRUE]

Init == CacheInit /\ VerifyIdle /\ LibIdle

Next == CacheNext /\ UNCHANGED verifyVars /\ UNCHANGED libVars

Spec == Init /\ [][Next]_vars

---------------------------------------------------------------------------
(* Claims about the OCSP cache, checked under Spec *)

Returned(t) == ret[t].kind \in {"hit", "miss"} /\ tkey[t] # <<>>

\* C5: every Get that returns a hit read the clock at a time t no later than
\* the expiry e of the entry it returns (t <= e), under any interleaving of
\* Get, Set and Clear.
C5_HitNotExpired ==
    \A t \in Threads :
        ret[t].kind = "hit" => ret[t].at <= got[t].expiresAt

\* A hit at the very last tick of the entry's life, after the clock moved.
C5_Witness ==
    \E t \in Threads :
        /\ ret[t].kind = "hit"
        /\ ret[t].at = got[t].expiresAt
        /\ ret[t].at > 0

\* C6: the entry a Get reads in its locked lookup is either absent or exactly
\* the last complete Set on that key (value and expiry together), never a
\* partial or an older, overwritten entry.
C6_ReadSeesLastCompleteWrite ==
    \A t \in Threads :
        got[t] = NoEntry \/ got[t] = seen[t]

\* A Get that read an entry which itself had overwritten an older entry, while
\* the other goroutine has since written the key again.
C6_Witness ==
    \E t \in Threads :
        /\ pc[t] = "get_check"
        /\ got[t] # NoEntry
        /\ got[t].expiresAt > TTL
        /\ entries[tkey[t]] # NoEntry
        /\ entries[tkey[t]] # got[t]

\* C7: a Get that observed an expired entry returns a miss and evicts that
\* entry: what it removes from the map is the entry it observed, the cache
\* size dropping by one, and the key is absent afterwards.
C7_EvictsObservedEntry ==
    [][\A t \in Threads :
          (pc[t] = "get_evict" /\ pc'[t] = "idle") =>
              /\ ret'[t].kind = "miss"
              /\ entries'[tkey[t]] = NoEntry
              /\ entries[tkey[t]] # NoEntry =>
                    (entries[tkey[t]] = got[t] /\ Size' = Size - 1)]_vars

\* C8: a Get on a key whose most recent Set is unexpired returns a hit with
\* exactly the value given to that Set, whatever was Set on other keys; a key
\* never Set, or not Set since the last Clear, misses.
C8_GetReturnsLastSet ==
    \A t \in Threads :
        Returned(t) =>
            IF seen[t] = NoEntry
            THEN ret[t].kind = "miss"
            ELSE (ret[t].at <= seen[t].expiresAt) =>
                    /\ ret[t].kind = "hit"
                    /\ got[t].notRevoked = seen[t].notRevoked

\* C28: from the moment a Set on a key has returned until the entry it wrote
\* expires, and unless the cache is cleared, that entry is in the map, so
\* that every Get on the key starting in that time is a hit with the value
\* set: no eviction by a Get that read an older entry removes it.
C28_FreshEntrySurvivesEviction ==
    \A k \in Keys :
        (hist[k] # NoEntry /\ now <= hist[k].expiresAt) => entries[k] = hist[k]

---------------------------------------------------------------------------
(* VerificationResult (internal/signature/result.go) *)

NoSigner == [none |-> TRUE]

\* The zero time.Time a field of a struct literal has when it is not set; it
\* is before every instant of the clock.
ZeroTime == -1

NewVerificationResult ==
    [valid |-> FALSE, signatureFound |-> FALSE, signatureValid |-> FALSE,
     certChainValid |-> FALSE, notRevoked |-> FALSE, timestampValid |-> FALSE,
     signer |-> NoSigner, signedAt |-> FALSE, certChain |-> <<>>,
     warnings |-> <<>>, errors |-> <<>>, format |-> ""]

AddWarningSetsValid(r, msg) ==
    [r EXCEPT !.warnings = Append(@, msg), !.valid = TRUE]

AddWarning(r, msg) == [r EXCEPT !.warnings = Append(@, msg)]

AddErrorInFront(r, msg) == [r EXCEPT !.errors = <<msg>> \o @, !.valid = FALSE]

AddError(r, msg) == [r EXCEPT !.errors = Append(@, msg), !.valid = FALSE]

SetSigner(r, cert) ==
    IF cert = NilCert THEN r
    ELSE [r EXCEPT !.signer =
            [serialNumber |-> DecString(cert.serial),
             validFrom |-> cert.notBefore, validTo |-> cert.notAfter,
             name |-> cert.subject, issuer |-> cert.issuer]]

ComputeValidityIgnoringChain(r) ==
    [r EXCEPT !.valid = /\ r.signatureFound
                        /\ r.signatureValid
                        /\ r.notRevoked
                        /\ Len(r.errors) = 0]

ComputeValidity(r) ==
    [r EXCEPT !.valid = /\ r.signatureFound
                        /\ r.signatureValid
                        /\ r.certChainValid
                        /\ r.notRevoked
                        /\ Len(r.errors) = 0]

---------------------------------------------------------------------------
(* XML documents and the SignatureExtractor                                *)
(* A document is a tree of elements numbered in document order; element 1  *)
(* is the root and parent[1] = 0.  An element has a namespace prefix       *)
(* (space) and a local name (tag), as the XML library parses "ds:Name".    *)

Elem(parent, space, tag) == [parent |-> parent, space |-> space, tag |-> tag]

XmlDoc(elems) == [wellFormed |-> TRUE, elems |-> elems]

DocMalformed == [wellFormed |-> FALSE, elems |-> <<>>]

DocEmpty == XmlDoc(<<>>)

DocNoSignature ==
    XmlDoc(<<Elem(0, "", "Invoice"), Elem(1, "", "Seller"), Elem(2, "", "TaxID")>>)

DocDirect ==
    XmlDoc(<<Elem(0, "", "Invoice"), Elem(1, "", "Seller"), Elem(1, "", "Signature")>>)

DocPrefixed ==
    XmlDoc(<<Elem(0, "", "SInvoice"), Elem(1, "ds", "Signature")>>)

DocDeep ==
    XmlDoc(<<Elem(0, "", "HDon"), Elem(1, "", "DLHDon"), Elem(2, "", "TTKhac"),
             Elem(3, "", "Signature")>>)

Docs == {DocMalformed, DocEmpty, DocNoSignature, DocDirect, DocPrefixed, DocDeep}

ChildElements(doc, n) ==
    {i \in 1..Len(doc.elems) : doc.elems[i].parent = n}

Min(S) == CHOOSE x \in S : \A y \in S : x <= y

\* A path segment "ds:Name" selects children with that prefix and name; a
\* segment "Name" selects children with that name under any prefix.
SegmentMatches(seg, el) ==
    /\ el.tag = seg.tag
    /\ seg.space = "" \/ el.space = seg.space

RECURSIVE SelectPath(_, _, _)
SelectPath(doc, from, path) ==
    IF path = <<>> THEN from
    ELSE SelectPath(doc,
            {i \in 1..Len(doc.elems) :
                /\ doc.elems[i].parent \in from
                /\ SegmentMatches(Head(path), doc.elems[i])},
            Tail(path))

\* Element.FindElement(path): first match in document order, 0 for nil.
FindElement(doc, n, path) ==
    LET found == SelectPath(doc, {n}, path)
    IN  IF found = {} THEN 0 ELSE Min(found)

Seg(space, tag) == [space |-> space, tag |-> tag]

searchPaths ==
    << <<Seg("", "Signature")>>,
       <<Seg("ds", "Signature")>>,
       <<Seg("", "Invoice"), Seg("", "Signature")>>,
       <<Seg("", "Invoices"), Seg("", "Invoice"), Seg("", "Signature")>>,
       <<Seg("", "SInvoice"), Seg("", "Signature")>>,
       <<Seg("", "HoaDon"), Seg("", "Signature")>>,
       <<Seg("", "HDon"), Seg("", "TTChung"), Seg("", "TTKhac"), Seg("", "Signature")>>,
       <<Seg("", "HDon"), Seg("", "Signature")>>,
       <<Seg("", "EInvoice"), Seg("", "Signature")>> >>

\* hasLocalName: the tag with everything up to a ':' stripped; the parsed tag
\* holds no prefix, so this is the tag itself.
hasLocalName(el, localName) == el.tag = localName

RECURSIVE findElementRecursive(_, _, _)
findElementRecursive(doc, n, localName) ==
    IF doc.elems[n].tag = localName \/ hasLocalName(doc.elems[n], localName)
    THEN n
    ELSE LET hits == {c \in ChildElements(doc, n) :
                          findElementRecursive(doc, c, localName) # 0}
         IN  IF hits = {} THEN 0
             ELSE findElementRecursive(doc, Min(hits), localName)

findSignatureElementByScan(doc, root) == findElementRecursive(doc, root, "Signature")

findSignatureElement(doc, root) ==
    LET hits == {i \in 1..Len(searchPaths) :
                     FindElement(doc, root, searchPaths[i]) # 0}
    IN  IF hits # {} THEN FindElement(doc, root, searchPaths[Min(hits)])
        ELSE findElementRecursive(doc, root, "Signature")

detectProvider(doc) ==
    LET tag == doc.elems[1].tag
    IN  CASE tag = "SInvoice" -> "VNPT"
          [] tag = "HDon" -> "Viettel"
          [] tag = "EInvoice" -> "FPT"
          [] tag = "HoaDon" -> "MISA"
          [] tag \in {"Invoice", "Invoices"} -> "TCT"
          [] OTHER -> "Unknown"

\* SignatureExtractor.Extract: err is "nil" or the error message.
Extract(doc) ==
    IF ~doc.wellFormed THEN [err |-> "failed to parse XML"]
    ELSE IF Len(doc.elems) = 0 THEN [err |-> "empty XML document"]
    ELSE LET sig == findSignatureElement(doc, 1)
         IN  IF sig = 0 THEN [err |-> "no Signature element found in document"]
             ELSE [err |-> "nil", sig |-> sig,
                   signed |-> IF doc.elems[sig].parent = 0 THEN 1
                              ELSE doc.elems[sig].parent,
                   provider |-> detectProvider(doc)]

---------------------------------------------------------------------------
(* TrustStore: chain verification and revocation check *)

\* NewTrustStore with or without WithSoftFail; the pool holds the embedded root.
NewTrustStore(softFail) ==
    [softFail |-> softFail, roots |-> {RootCA}, rootCerts |-> <<RootCA>>]

\* NewEmptyTrustStore: no default CAs.
NewEmptyTrustStore == [softFail |-> FALSE, roots |-> {}, rootCerts |-> <<>>]

TimeValid(cert, t) == cert.notBefore <= t /\ t <= cert.notAfter

Issued(parent, cert) ==
    parent.subject = cert.issuer /\ parent.key = cert.signedBy

\* TrustStore.VerifyChain: the first chain from cert to a root of the pool,
\* leaf first; <<>> stands for the error return.
RECURSIVE VerifyChain(_, _, _, _)
VerifyChain(cert, intermediates, roots, t) ==
    IF cert = NilCert \/ ~TimeValid(cert, t) THEN <<>>
    ELSE IF cert \in roots THEN <<cert>>
    ELSE LET rs == {r \in roots : Issued(r, cert) /\ TimeValid(r, t)}
             is == {i \in intermediates :
                       /\ Issued(i, cert)
                       /\ VerifyChain(i, intermediates \ {i}, roots, t) # <<>>}
         IN  IF rs # {} THEN <<cert, CHOOSE r \in rs : TRUE>>
             ELSE IF is # {}
             THEN <<cert>> \o VerifyChain(CHOOSE i \in is : TRUE,
                                          intermediates \ {CHOOSE i \in is : TRUE},
                                          roots, t)
             ELSE <<>>

\* OCSPCache.Get run by one goroutine with nobody interleaving: the locked
\* read, the expiry test and the eviction in sequence.
CacheGet(e, cert, t) ==
    IF cert = NilCert THEN [found |-> FALSE, notRevoked |-> FALSE, entries |-> e]
    ELSE LET key == certCacheKey(cert) IN
         IF e[key] = NoEntry
         THEN [found |-> FALSE, notRevoked |-> FALSE, entries |-> e]
         ELSE IF Expired(t, e[key])
         THEN [found |-> FALSE, notRevoked |-> FALSE,
               entries |-> [e EXCEPT ![key] = NoEntry]]
         ELSE [found |-> TRUE, notRevoked |-> e[key].notRevoked, entries |-> e]

\* OCSPCache.Set run by one goroutine.
CacheSet(e, cert, notRevoked, t) ==
    IF cert = NilCert THEN e
    ELSE [e EXCEPT ![certCacheKey(cert)] =
              StoreEntry(e[certCacheKey(cert)], notRevoked, t)]

\* What a responder can answer; "Fail" covers a network error, a non-200
\* status, an unreadable or unparseable response and a timeout.
Answers == {"Good", "Revoked", "Unknown", "Fail"}

\* queryOCSPServer: (revoked, err) for one responder's answer.
queryOCSPServer(answer) ==
    CASE answer = "Good"    -> [revoked |-> FALSE, err |-> "nil"]
      [] answer = "Revoked" -> [revoked |-> TRUE,  err |-> "nil"]
      [] answer = "Unknown" -> [revoked |-> FALSE, err |-> "OCSP status unknown"]
      [] OTHER              -> [revoked |-> FALSE, err |-> "OCSP request failed"]

\* CheckOCSP, one turn of the loop over cert.OCSPServer after responder i of
\* n answered q: return q's outcome, go on to the next responder, or give up.
CheckOCSPTurnStopAtFirst(i, n, q) ==
    [done |-> TRUE, revoked |-> q.revoked,
     err |-> IF q.err = "nil" THEN "nil" ELSE "all OCSP servers failed"]

CheckOCSPTurn(i, n, q) ==
    IF q.err = "nil" THEN [done |-> TRUE, revoked |-> q.revoked, err |-> "nil"]
    ELSE IF i < n THEN [done |-> FALSE]
    ELSE [done |-> TRUE, revoked |-> FALSE, err |-> "all OCSP servers failed"]

\* CheckRevocation, the return on a cache hit: revoked, found := Get(cert);
\* return !revoked, nil.
RevocationFromCache(cached) == [notRevoked |-> ~cached, err |-> "nil"]

\* CheckRevocation, the return after CheckOCSP gave (revoked, err).
RevocationFromOCSP(softFail, o) ==
    IF o.err # "nil"
    THEN IF softFail
         THEN [notRevoked |-> TRUE, err |-> "OCSP check failed (soft-fail enabled)"]
         ELSE [notRevoked |-> FALSE, err |-> "OCSP check failed"]
    ELSE [notRevoked |-> ~o.revoked, err |-> "nil"]

---------------------------------------------------------------------------
(* XMLVerifier.Verify (internal/signature/xml/verifier.go) *)

\* Lines 94-108: the result after CheckRevocation returned rev.
ApplyRevocationHardFail(r, softFail, rev) ==
    IF rev.err # "nil"
    THEN [AddError(r, "OCSP check failed") EXCEPT !.notRevoked = FALSE]
    ELSE IF rev.notRevoked THEN [r EXCEPT !.notRevoked = TRUE]
         ELSE AddError([r EXCEPT !.notRevoked = FALSE],
                       "certificate has been revoked")

ApplyRevocation(r, softFail, rev) ==
    IF rev.err # "nil"
    THEN IF softFail
         THEN [AddWarning(r, "OCSP check (soft-fail enabled)") EXCEPT !.notRevoked = TRUE]
         ELSE [AddError(r, "OCSP check failed") EXCEPT !.notRevoked = FALSE]
    ELSE IF rev.notRevoked THEN [r EXCEPT !.notRevoked = TRUE]
         ELSE AddError([r EXCEPT !.notRevoked = FALSE],
                       "certificate has been revoked")

\* Lines 38-42: the result on extraction failure.
ExtractFailedNoError(r, err) == r

ExtractFailed(r, err) == AddError(r, err)

\* Lines 74-81: where Verify goes after Validate returned.
AfterValidateAbort(ok) == IF ok THEN "x_cert" ELSE "done"

AfterValidate(ok) == "x_cert"

\* Lines 85-86: the result when extractAndVerifyCertificate returned err.
CertificateFailedAsError(r, err) ==
    AddError(r, "certificate extraction/verification: " \o err)

CertificateFailed(r, err) ==
    AddWarning(r, "certificate extraction/verification: " \o err)

\* What the Signature element may carry as its X509Certificate.
CertData ==
    {[kind |-> k, cert |-> NilCert] : k \in {"none", "badBase64", "badDER"}}
    \cup {[kind |-> "cert", cert |-> c] : c \in SignerCerts}

\* extractAndVerifyCertificate: (cert, chain, err).
extractAndVerifyCertificate(data, roots, t) ==
    CASE data.kind = "none" ->
            [cert |-> NilCert, chain |-> <<>>, called |-> FALSE,
             err |-> "no X509Certificate found in Signature"]
      [] data.kind = "badBase64" ->
            [cert |-> NilCert, chain |-> <<>>, called |-> FALSE,
             err |-> "failed to decode certificate"]
      [] data.kind = "badDER" ->
            [cert |-> NilCert, chain |-> <<>>, called |-> FALSE,
             err |-> "failed to parse certificate"]
      [] OTHER ->
            LET chain == VerifyChain(data.cert, {}, roots, t)
            IN  [cert |-> data.cert, chain |-> chain, called |-> TRUE,
                 err |-> IF chain = <<>> THEN "chain verification failed"
                         ELSE "nil"]

NoLocals == [none |-> TRUE]

VerifyInit ==
    /\ vpc = "none"
    /\ vin = [kind |-> "none"]
    /\ result = [none |-> TRUE]
    /\ rawErr = "nil"
    /\ vloc = NoLocals
    /\ steps = <<>>
    /\ contacted = <<>>
    /\ \E sf \in BOOLEAN, av \in BOOLEAN :
          store = NewTrustStore(sf) @@ [pdfsigAvailable |-> av]

\* Verify is called: a fresh result with Format = "xml".
XmlStart(doc) ==
    /\ vpc \in {"none", "done"}
    /\ vin' = [kind |-> "xml", doc |-> doc]
    /\ result' = [NewVerificationResult EXCEPT !.format = "xml"]
    /\ rawErr' = "nil"
    /\ vloc' = NoLocals
    /\ steps' = <<>>
    /\ contacted' = <<>>
    /\ vpc' = "x_extract"
    /\ UNCHANGED <<now, entries, store>>

\* Step 1: extract the signature element and the signed element.
XmlExtract ==
    /\ vpc = "x_extract"
    /\ steps' = Append(steps, "extract")
    /\ LET ex == Extract(vin.doc) IN
        IF ex.err # "nil"
        THEN /\ result' = ExtractFailed(result, ex.err)
             /\ rawErr' = "ErrNoSignature"
             /\ vloc' = vloc
             /\ vpc' = "done"
        ELSE /\ result' = [result EXCEPT !.signatureFound = TRUE]
             /\ rawErr' = rawErr
             /\ vloc' = [sig |-> ex.sig, signed |-> ex.signed]
             /\ vpc' = "x_reserialize"
    /\ UNCHANGED <<now, entries, vin, contacted, store>>

\* Step 2: serialize the signed element alone, parse it again and find the
\* signature in it; the library may fail to write or to read it back.
XmlReserialize(outcome) ==
    /\ vpc = "x_reserialize"
    /\ steps' = Append(steps, "reserialize")
    /\ CASE outcome = "writeError" ->
              /\ result' = AddError(result, "failed to serialize signed element")
              /\ rawErr' = "serialize error"
              /\ vpc' = "done"
         [] outcome = "readError" ->
              /\ result' = AddError(result, "failed to parse signed XML")
              /\ rawErr' = "parse error"
              /\ vpc' = "done"
         [] OTHER ->
              IF findSignatureElement(vin.doc, vloc.signed) = 0
              THEN /\ result' = AddError(result,
                                  "signature element not found after re-parsing")
                   /\ rawErr' = "ErrNoSignature"
                   /\ vpc' = "done"
              ELSE /\ result' = result
                   /\ rawErr' = rawErr
                   /\ vpc' = "x_validate"
    /\ UNCHANGED <<now, entries, vin, vloc, contacted, store>>

\* Step 3: validate the XMLDSig; ok is the library's verdict.
XmlValidate(ok) ==
    /\ vpc = "x_validate"
    /\ steps' = Append(steps, "validate")
    /\ result' = IF ok THEN [result EXCEPT !.signatureValid = TRUE]
                 ELSE AddError([result EXCEPT !.signatureValid = FALSE],
                               "signature validation failed")
    /\ vpc' = AfterValidate(ok)
    /\ UNCHANGED <<now, entries, vin, rawErr, vloc, contacted, store>>

\* Steps 4 and 5: parse the certificate and verify its chain.
XmlCertificate(data) ==
    /\ vpc = "x_cert"
    /\ LET cv == extractAndVerifyCertificate(data, store.roots, now) IN
        /\ steps' = steps \o <<"certificate">> \o
                        (IF cv.called THEN <<"chain">> ELSE <<>>)
        /\ IF cv.err # "nil"
           THEN /\ result' = CertificateFailed(result, cv.err)
                /\ vloc' = [certErr |-> cv.err]
                /\ vpc' = "x_signingtime"
           ELSE /\ result' = [SetSigner(result, cv.cert) EXCEPT
                                 !.certChain = cv.chain, !.certChainValid = TRUE]
                /\ vloc' = [cert |-> cv.cert, chain |-> cv.chain]
                /\ vpc' = "x_revocation"
    /\ UNCHANGED <<now, entries, vin, rawErr, contacted, store>>

\* Line 93: the revocation check needs the issuer, the second chain element.
NeedsRevocationCheckLongChain(chain) == Len(chain) >= 3

NeedsRevocationCheck(chain) == Len(chain) >= 2

\* CheckRevocation, the return for a certificate that lists no OCSP server.
NoResponderRevocationFails ==
    [notRevoked |-> FALSE, err |-> "no OCSP server URL in certificate"]

NoResponderRevocation == [notRevoked |-> TRUE, err |-> "nil"]

\* The time a request sent at `start` has before the context created by
\* context.WithTimeout(ctx, ocspTimeout) in CheckRevocation is done.
RequestBudget(deadline, start) ==
    IF deadline > start THEN deadline - start ELSE 0

\* Step 6: the revocation check, up to the first OCSP request.  With a chain
\* of one element it is skipped; otherwise CheckRevocation(cert, chain[1])
\* looks in the cache, then at the certificate's responder list, and creates
\* the context with the OCSP timeout before it calls CheckOCSP.  On a cache
\* hit vloc.revoked is the local `revoked`, the first value Get returned.
XmlRevocation ==
    /\ vpc = "x_revocation"
    /\ steps' = Append(steps, "revocation")
    /\ IF NeedsRevocationCheck(vloc.chain)
       THEN LET g == CacheGet(entries, vloc.cert, now)
                called == vloc @@ [revCalls |->
                              <<[cert |-> vloc.cert, issuer |-> vloc.chain[2]]>>]
            IN
            /\ entries' = g.entries
            /\ IF g.found
               THEN /\ result' = ApplyRevocation(result, store.softFail,
                                     RevocationFromCache(g.notRevoked))
                    /\ vloc' = called @@ [rev |-> RevocationFromCache(g.notRevoked),
                                          revoked |-> g.notRevoked]
                    /\ vpc' = "x_signingtime"
               ELSE IF Len(vloc.cert.ocsp) = 0
               THEN /\ result' = ApplyRevocation(result, store.softFail,
                                     NoResponderRevocation)
                    /\ vloc' = called @@ [rev |-> NoResponderRevocation]
                    /\ vpc' = "x_signingtime"
               ELSE /\ result' = result
                    /\ vloc' = called @@ [deadline |-> now + OcspTimeout,
                                          reqStart |-> now]
                    /\ vpc' = "ocsp_query"
       ELSE /\ result' = AddWarning([result EXCEPT !.notRevoked = TRUE],
                  "revocation check skipped: no issuer certificate in chain")
            /\ entries' = entries
            /\ vloc' = vloc @@ [revCalls |-> <<>>]
            /\ vpc' = "x_signingtime"
    /\ UNCHANGED <<now, vin, rawErr, contacted, store>>

\* CheckOCSP: the request to the next responder of cert.OCSPServer ends with
\* `answer`; once the context is done a request can only fail.  On the last
\* turn CheckRevocation caches and returns, and Verify records the outcome.
OcspQuery(answer) ==
    /\ vpc = "ocsp_query"
    /\ now >= vloc.deadline => answer = "Fail"
    /\ LET i == Len(contacted) + 1
           n == Len(vloc.cert.ocsp)
           turn == CheckOCSPTurn(i, n, queryOCSPServer(answer))
       IN
        /\ contacted' = Append(contacted,
              [server |-> vloc.cert.ocsp[i], answer |-> answer,
               budget |-> RequestBudget(vloc.deadline, vloc.reqStart)])
        /\ IF ~turn.done
           THEN /\ vloc' = [vloc EXCEPT !.reqStart = now]
                /\ UNCHANGED <<entries, result, vpc>>
           ELSE LET rev == RevocationFromOCSP(store.softFail, turn) IN
                /\ entries' = IF turn.err = "nil"
                              THEN CacheSet(entries, vloc.cert, ~turn.revoked, now)
                              ELSE entries
                /\ result' = ApplyRevocation(result, store.softFail, rev)
                /\ vloc' = [cert |-> vloc.cert, chain |-> vloc.chain,
                            revCalls |-> vloc.revCalls, rev |-> rev,
                            ocsp |-> [revoked |-> turn.revoked, err |-> turn.err]]
                /\ vpc' = "x_signingtime"
    /\ UNCHANGED <<now, vin, rawErr, steps, store>>

\* Step 7: probe the SigningTime paths.
XmlSigningTime(present) ==
    /\ vpc = "x_signingtime"
    /\ steps' = Append(steps, "signingtime")
    /\ result' = IF present THEN [result EXCEPT !.signedAt = TRUE] ELSE result
    /\ vpc' = "x_compute"
    /\ UNCHANGED <<now, entries, vin, rawErr, vloc, contacted, store>>

\* Step 8: ComputeValidity and return (result, nil).
XmlCompute ==
    /\ vpc = "x_compute"
    /\ steps' = Append(steps, "compute")
    /\ result' = ComputeValidity(result)
    /\ vpc' = "done"
    /\ UNCHANGED <<now, entries, vin, rawErr, vloc, contacted, store>>

---------------------------------------------------------------------------
(* PDFVerifier.Verify and the pdfsig report parser *)

MaxLines == 3

\* A line of the pdfsig report, by the pattern it matches.  A verdict line
\* carries its status text, given by the words it contains.
ReportLines ==
    {[kind |-> "Signature #"], [kind |-> "Common Name"], [kind |-> "Signing Time"],
     [kind |-> "other"]}
    \cup {[kind |-> "Signature Validation", status |-> st] :
             st \in {"valid", "invalid", "unknown"}}
    \cup {[kind |-> "Certificate Validation", status |-> st] :
             st \in {"trusted", "not trusted"}}

\* strings.Contains(strings.ToLower(status), word)
Contains(status, word) ==
    CASE word = "valid"       -> status \in {"valid", "invalid"}
      [] word = "invalid"     -> status = "invalid"
      [] word = "trusted"     -> status \in {"trusted", "not trusted"}
      [] word = "not trusted" -> status = "not trusted"
      [] OTHER                -> FALSE

NoSig == [none |-> TRUE]

NewPDFSignature ==
    [signerCN |-> "", signingTime |-> FALSE, signatureValid |-> FALSE,
     certTrusted |-> FALSE, errorMessage |-> ""]

\* ParsePDFSigOutput, the loop over the lines: out is the output so far and
\* cur the signature block being filled.
RECURSIVE ParseLines(_, _, _)
ParseLines(lines, out, cur) ==
    IF lines = <<>>
    THEN IF cur = NoSig THEN out
         ELSE [out EXCEPT !.signatures = Append(@, cur)]
    ELSE LET l == Head(lines) rest == Tail(lines) IN
         IF l.kind = "Signature #"
         THEN ParseLines(rest,
                 [signatureCount |-> out.signatureCount + 1,
                  signatures |-> IF cur = NoSig THEN out.signatures
                                 ELSE Append(out.signatures, cur)],
                 NewPDFSignature)
         ELSE IF cur = NoSig THEN ParseLines(rest, out, cur)
         ELSE CASE l.kind = "Common Name" ->
                     ParseLines(rest, out, [cur EXCEPT !.signerCN = "CN"])
                [] l.kind = "Signing Time" ->
                     ParseLines(rest, out, [cur EXCEPT !.signingTime = TRUE])
                [] l.kind = "Signature Validation" ->
                     LET ok == Contains(l.status, "valid")
                                 /\ ~Contains(l.status, "invalid")
                     IN  ParseLines(rest, out,
                            [cur EXCEPT !.signatureValid = ok,
                                        !.errorMessage = IF ok THEN @ ELSE l.status])
                [] l.kind = "Certificate Validation" ->
                     ParseLines(rest, out,
                        [cur EXCEPT !.certTrusted =
                            Contains(l.status, "trusted")
                                /\ ~Contains(l.status, "not trusted")])
                [] OTHER -> ParseLines(rest, out, cur)

ParsePDFSigOutput(lines) ==
    ParseLines(lines, [signatureCount |-> 0, signatures |-> <<>>], NoSig)

Reports == UNION {[1..n -> ReportLines] : n \in 0..MaxLines}

\* Lines 97-98: the signature block the result is built from.
LastSignature(output) == output.signatures[Len(output.signatures)]

PrimarySignature(output) == output.signatures[1]

\* Lines 93-134: the result for a report with at least one signature.
MapPDFSignature(r, output) ==
    LET sig == PrimarySignature(output)
        r1 == [r EXCEPT !.signatureFound = TRUE,
                        !.signatureValid = sig.signatureValid,
                        !.certChainValid = sig.certTrusted,
                        !.signedAt = sig.signingTime,
                        !.signer = IF sig.signerCN # ""
                                   THEN [serialNumber |-> <<>>,
                                         validFrom |-> ZeroTime,
                                         validTo |-> ZeroTime,
                                         name |-> sig.signerCN, issuer |-> ""]
                                   ELSE NoSigner]
        r2 == IF sig.signatureValid THEN r1 ELSE AddError(r1, "signature invalid")
        r3 == IF sig.certTrusted THEN r2
              ELSE AddWarning(r2, "certificate not trusted by pdfsig")
        r4 == IF output.signatureCount > 1
              THEN AddWarning(r3, "PDF contains several signatures, only first verified")
              ELSE r3
    IN  ComputeValidity(
            AddWarning([r4 EXCEPT !.notRevoked = TRUE],
                "OCSP revocation check not performed for PDF signatures"))

\* The temporary file: whether it exists, whether the PDF bytes were written
\* to it, whether Verify holds it open.
NoTmp == [exists |-> FALSE, written |-> FALSE, open |-> FALSE]

\* os.CreateTemp("", "verify-*.pdf")
CreateTemp == [exists |-> TRUE, written |-> FALSE, open |-> TRUE]

\* tmpFile.Write(data) without error, then tmpFile.Close()
WriteAndClose(tmp) == [tmp EXCEPT !.written = TRUE, !.open = FALSE]

\* The deferred tmpFile.Close() and os.Remove(tmpFile.Name()) at a return.
RunDeferredCloseOnly(tmp) == [tmp EXCEPT !.open = FALSE]

RunDeferred(tmp) == [tmp EXCEPT !.open = FALSE, !.exists = FALSE]

\* GetInstallInstructions()
InstallInstructions == "pdfsig is required for PDF signature verification."

\* Verify is called: a fresh result with Format = "pdf"; without the tool it
\* returns at once.
PdfStart ==
    /\ vpc \in {"none", "done"}
    /\ vin' = [kind |-> "pdf"]
    /\ steps' = <<>>
    /\ contacted' = <<>>
    /\ vloc' = [tmp |-> NoTmp, created |-> FALSE]
    /\ IF ~store.pdfsigAvailable
       THEN /\ result' = AddError([NewVerificationResult EXCEPT !.format = "pdf"],
                                  "pdfsig tool not available")
            /\ rawErr' = "ErrToolUnavailable"
            /\ vpc' = "done"
       ELSE /\ result' = [NewVerificationResult EXCEPT !.format = "pdf"]
            /\ rawErr' = "nil"
            /\ vpc' = "p_create"
    /\ UNCHANGED <<now, entries, store>>

\* os.CreateTemp, then tmpFile.Write and Close; the deferred Close and Remove
\* run on every return after the file exists.
PdfTempFile(createOK, writeOK) ==
    /\ vpc = "p_create"
    /\ steps' = Append(steps, "tempfile")
    /\ IF ~createOK
       THEN /\ result' = AddError(result, "failed to create temp file")
            /\ rawErr' = "create error"
            /\ vloc' = [tmp |-> NoTmp, created |-> FALSE]
            /\ vpc' = "done"
       ELSE IF ~writeOK
       THEN /\ result' = AddError(result, "failed to write temp file")
            /\ rawErr' = "write error"
            /\ vloc' = [tmp |-> RunDeferred(CreateTemp), created |-> TRUE]
            /\ vpc' = "done"
       ELSE /\ result' = result
            /\ rawErr' = rawErr
            /\ vloc' = [tmp |-> WriteAndClose(CreateTemp), created |-> TRUE]
            /\ vpc' = "p_run"
    /\ UNCHANGED <<now, entries, vin, contacted, store>>

\* cmd.Run and the rest of Verify: the tool gives an exit error or not and a
\* report on stdout (empty when it printed nothing).
PdfRun(exitErr, report) ==
    /\ vpc = "p_run"
    /\ steps' = Append(steps, "pdfsig")
    /\ vloc' = [tmp |-> RunDeferred(vloc.tmp), created |-> TRUE,
                ranOn |-> vloc.tmp]
    /\ vpc' = "done"
    /\ IF exitErr /\ report = <<>>
       THEN /\ result' = AddError(result, "pdfsig failed")
            /\ rawErr' = "exit error"
       ELSE LET output == ParsePDFSigOutput(report) IN
            IF output.signatureCount = 0
            THEN /\ result' = AddError(result, "no signatures found in PDF")
                 /\ rawErr' = "ErrNoSignature"
            ELSE /\ result' = MapPDFSignature(result, output)
                 /\ rawErr' = "nil"
    /\ UNCHANGED <<now, entries, vin, contacted, store>>

VerifyTick ==
    /\ now < MaxTime
    /\ now' = now + 1
    /\ UNCHANGED verifyVars
    /\ UNCHANGED entries

VerifyNext ==
    \/ \E doc \in Docs : XmlStart(doc)
    \/ XmlExtract
    \/ \E o \in {"ok", "writeError", "readError"} : XmlReserialize(o)
    \/ \E ok \in BOOLEAN : XmlValidate(ok)
    \/ \E data \in CertData : XmlCertificate(data)
    \/ XmlRevocation
    \/ \E a \in Answers : OcspQuery(a)
    \/ \E present \in BOOLEAN : XmlSigningTime(present)
    \/ XmlCompute
    \/ PdfStart
    \/ \E c \in BOOLEAN, w \in BOOLEAN : PdfTempFile(c, w)
    \/ \E e \in BOOLEAN, report \in Reports : PdfRun(e, report)
    \/ VerifyTick

VerifyStep ==
    /\ VerifyNext
    /\ UNCHANGED <<pc, tkey, got, seen, ret, hist>>
    /\ UNCHANGED libVars

VerifySpecInit ==
    /\ CacheInit
    /\ VerifyInit
    /\ LibIdle

VerifySpec == VerifySpecInit /\ [][VerifyStep]_vars

---------------------------------------------------------------------------
(* Claims about the verifiers, checked under VerifySpec *)

Done == vpc = "done"

InSteps(x) == \E i \in 1..Len(steps) : steps[i] = x

Procedure ==
    <<"extract", "reserialize", "validate", "certificate", "chain",
      "revocation", "signingtime", "compute">>

StepIndex(x) == CHOOSE i \in 1..Len(Procedure) : Procedure[i] = x

OcspReturned == "ocsp" \in DOMAIN vloc

Positive(answer) == answer \in {"Good", "Revoked"}

\* C1: in every result a verifier returns, on every return path, valid is
\* true exactly when signature_found, signature_valid, cert_chain_valid and
\* not_revoked are all true and errors is empty.
C1_ValidIffAllChecks ==
    Done =>
        (result.valid <=> /\ result.signatureFound
                          /\ result.signatureValid
                          /\ result.certChainValid
                          /\ result.notRevoked
                          /\ result.errors = <<>>)

\* A PDF whose signature verifies while pdfsig does not trust the certificate.
C1_Witness ==
    /\ Done
    /\ result.format = "pdf"
    /\ result.signatureValid
    /\ ~result.certChainValid
    /\ result.notRevoked
    /\ ~result.valid

\* C2 as stated: whenever a returned result has valid = false, errors is
\* non-empty and names every failed check, a chain that is not valid included.
C2_ErrorsExplainEveryRejection ==
    (Done /\ ~result.valid) => result.errors # <<>>

\* The errors a finished verification holds, from its check booleans: the
\* failure that stopped it, or the failed signature validation followed by the
\* failed revocation check.
ExpectedErrors ==
    (IF result.signatureValid THEN <<>>
     ELSE IF result.format = "xml" THEN <<"signature validation failed">>
     ELSE <<"signature invalid">>)
    \o
    (IF result.certChainValid /\ ~result.notRevoked
     THEN IF OcspReturned /\ vloc.ocsp.err # "nil"
          THEN <<"OCSP check failed">>
          ELSE <<"certificate has been revoked">>
     ELSE <<>>)

\* C2 amended: errors lists, in the order detected, the failure that stopped
\* the verification, or else one entry for a failed signature validation and
\* one for a failed revocation check; a chain that is not valid is reported in
\* warnings, so a result with valid = false and no errors is one whose chain
\* was not validated and whose warnings say so.
C2_ErrorsListFailedChecksButChain ==
    Done =>
        /\ rawErr # "nil" => Len(result.errors) = 1
        /\ rawErr = "nil" => result.errors = ExpectedErrors
        /\ (~result.valid /\ result.errors = <<>>) =>
              (~result.certChainValid /\ result.warnings # <<>>)

\* Two failed checks reported in the order they were detected.
C2_Witness ==
    /\ Done
    /\ result.errors = <<"signature validation failed", "OCSP check failed">>

\* C3: CheckOCSP queries the responders in declaration order, returns the
\* outcome of the first one that answers Good (not revoked) or Revoked
\* (revoked) without contacting a later one, moves on after a failure or an
\* Unknown answer, and gives an error only when every responder failed.
C3_FirstAnswerWins ==
    /\ vpc = "ocsp_query" =>
         /\ Len(contacted) < Len(vloc.cert.ocsp)
         /\ \A i \in 1..Len(contacted) : ~Positive(contacted[i].answer)
    /\ OcspReturned =>
         LET n == Len(contacted) servers == vloc.cert.ocsp IN
         /\ n >= 1 /\ n <= Len(servers)
         /\ \A i \in 1..n : contacted[i].server = servers[i]
         /\ \A i \in 1..(n - 1) : ~Positive(contacted[i].answer)
         /\ IF vloc.ocsp.err = "nil"
            THEN /\ Positive(contacted[n].answer)
                 /\ vloc.ocsp.revoked = (contacted[n].answer = "Revoked")
            ELSE /\ n = Len(servers)
                 /\ ~Positive(contacted[n].answer)

\* The first responder answers Unknown and the second one Good.
C3_Witness ==
    /\ OcspReturned
    /\ vloc.ocsp.err = "nil"
    /\ ~vloc.ocsp.revoked
    /\ Len(contacted) = 2
    /\ contacted[1].answer = "Unknown"

\* C4: with soft-fail enabled, an OCSP error met during a verification sets
\* not_revoked = true with a warning and adds no error, so the result is valid
\* exactly when the other checks passed.
C4_SoftFailKeepsValid ==
    (store.softFail /\ OcspReturned /\ vloc.ocsp.err # "nil") =>
        /\ result.notRevoked
        /\ \E i \in 1..Len(result.warnings) :
              result.warnings[i] = "OCSP check (soft-fail enabled)"
        /\ \A i \in 1..Len(result.errors) :
              result.errors[i] = "signature validation failed"
        /\ Done => (result.valid <=> /\ result.signatureFound
                                     /\ result.signatureValid
                                     /\ result.certChainValid)

\* Every responder failed, soft-fail is on, and the result is valid.
C4_Witness ==
    /\ Done
    /\ store.softFail
    /\ OcspReturned
    /\ vloc.ocsp.err # "nil"
    /\ result.valid

ValidationFailed ==
    /\ vin.kind = "xml"
    /\ InSteps("validate")
    /\ ~result.signatureValid

\* C9: the steps of an XML verification run in the order of the procedure,
\* and a failed cryptographic validation does not abort it: signature_valid
\* is false and an error is pushed, certificate parsing, chain verification,
\* the revocation check and signing-time extraction still run, and the call
\* returns the result without a raw error.
C9_StrictOrderNoAbort ==
    /\ vin.kind = "xml" =>
         \A i, j \in 1..Len(steps) :
             i < j => StepIndex(steps[i]) < StepIndex(steps[j])
    /\ ValidationFailed =>
         /\ result.errors # <<>>
         /\ result.errors[1] = "signature validation failed"
         /\ Done =>
              /\ rawErr = "nil"
              /\ InSteps("certificate")
              /\ InSteps("signingtime")
              /\ steps[Len(steps)] = "compute"
              /\ result.signer # NoSigner => InSteps("chain") /\ InSteps("revocation")

\* A tampered document whose signer is still identified and checked with a
\* responder.
C9_Witness ==
    /\ Done
    /\ ValidationFailed
    /\ result.signer # NoSigner
    /\ InSteps("revocation")
    /\ Len(contacted) > 0
    /\ result.signedAt

ExtractionFails ==
    /\ vin.kind = "xml"
    /\ Extract(vin.doc).err # "nil"

\* C10: when no signature can be extracted (unparseable XML, empty document,
\* no Signature element), Verify returns signature_found = false, the
\* extraction error in errors and valid = false, and runs none of the later
\* steps.
C10_ExtractionFailureStops ==
    ExtractionFails =>
        /\ vpc \in {"x_extract", "done"}
        /\ Done =>
             /\ ~result.signatureFound
             /\ result.errors = <<Extract(vin.doc).err>>
             /\ ~result.valid
             /\ steps = <<"extract">>
             /\ contacted = <<>>
             /\ ~result.signatureValid
             /\ ~result.certChainValid
             /\ ~result.notRevoked

\* A well-formed document without a Signature element was verified.
C10_Witness ==
    /\ Done
    /\ vin.kind = "xml"
    /\ vin.doc = DocNoSignature
    /\ rawErr = "ErrNoSignature"

ChainFailed ==
    /\ vin.kind = "xml"
    /\ "certErr" \in DOMAIN vloc
    /\ vloc.certErr = "chain verification failed"

HasWarning(msg) == \E i \in 1..Len(result.warnings) : result.warnings[i] = msg

\* C11: when chain verification of the signer certificate fails during an XML
\* verification, a warning is pushed for it and no error: errors holds at most
\* the signature validation failure, cert_chain_valid stays false, cert_chain
\* stays empty, and the verification still finishes with ComputeValidity.
C11_ChainFailureIsWarning ==
    ChainFailed =>
        /\ HasWarning("certificate extraction/verification: chain verification failed")
        /\ \A i \in 1..Len(result.errors) :
              result.errors[i] = "signature validation failed"
        /\ result.signatureValid => result.errors = <<>>
        /\ ~result.certChainValid
        /\ result.certChain = <<>>
        /\ InSteps("chain")
        /\ vpc \in {"x_signingtime", "x_compute", "done"}
        /\ Done => rawErr = "nil"

\* A document signed with a certificate of an untrusted issuer: the signature
\* validates, the chain does not, and the result has no error at all.
C11_Witness ==
    /\ Done
    /\ ChainFailed
    /\ result.signatureValid
    /\ result.errors = <<>>
    /\ ~result.valid

RevocationDecided ==
    /\ vin.kind = "xml"
    /\ "revCalls" \in DOMAIN vloc

OnlySignatureErrors ==
    \A i \in 1..Len(result.errors) :
        result.errors[i] = "signature validation failed"

\* C12: in an XML verification the revocation checker is called only after
\* the chain was verified, and only when the verified chain has at least two
\* elements: then it is called once, with (chain[0], chain[1]) as (signer,
\* issuer).  With a chain of one element no call and no OCSP request is made,
\* a warning is pushed and not_revoked is true.
C12_RevocationNeedsIssuer ==
    /\ (vin.kind = "xml" /\ (contacted # <<>> \/ vpc = "ocsp_query"
                              \/ "rev" \in DOMAIN vloc)) =>
          (RevocationDecided /\ Len(vloc.revCalls) = 1)
    /\ RevocationDecided =>
          /\ InSteps("chain")
          /\ steps[Len(steps)] # "chain"
          /\ result.certChainValid
          /\ result.certChain = vloc.chain
          /\ IF Len(result.certChain) >= 2
             THEN vloc.revCalls = <<[cert |-> result.certChain[1],
                                     issuer |-> result.certChain[2]]>>
             ELSE /\ Len(result.certChain) = 1
                  /\ vloc.revCalls = <<>>
                  /\ contacted = <<>>
                  /\ result.notRevoked
                  /\ HasWarning("revocation check skipped: no issuer certificate in chain")
                  /\ OnlySignatureErrors

\* The signer's chain is (signer, root) and a responder was asked about it.
C12_Witness ==
    /\ Done
    /\ RevocationDecided
    /\ Len(result.certChain) = 2
    /\ Len(vloc.revCalls) = 1
    /\ vloc.revCalls[1].issuer = RootCA
    /\ contacted # <<>>

NoResponderChecked ==
    /\ vin.kind = "xml"
    /\ RevocationDecided
    /\ Len(vloc.revCalls) = 1
    /\ vloc.revCalls[1].cert.ocsp = <<>>

\* C13: a certificate that lists no OCSP responder is treated as not revoked:
\* CheckRevocation returns not-revoked and no error without sending a
\* request, and the verification pushes no error for it, so the result is
\* valid exactly when the signature validated.
C13_NoResponderNotRevoked ==
    NoResponderChecked =>
        /\ "rev" \in DOMAIN vloc
        /\ vloc.rev = [notRevoked |-> TRUE, err |-> "nil"]
        /\ contacted = <<>>
        /\ result.notRevoked
        /\ OnlySignatureErrors
        /\ Done => (result.valid <=> result.signatureValid)

\* A valid document signed with a certificate that names no responder.
C13_Witness ==
    /\ Done
    /\ NoResponderChecked
    /\ result.valid
    /\ Len(result.certChain) = 2

\* C18: every responder queried gets the full OCSP timeout for its own
\* request, whatever time the responders before it took.
C18_EachResponderFullTimeout ==
    \A i \in 1..Len(contacted) : contacted[i].budget = OcspTimeout

---------------------------------------------------------------------------
(* TrustStore API: AddCertificate, AddCertificatesFromPEM and VerifyChain   *)
(* called in any order on one store (StoreSpec)                            *)

MaxRootCerts == 3

MaxBlocks == 2

\* A self-signed root outside the embedded set, an intermediate CA it
\* issued, an end entity it issued directly and a leaf of the intermediate.
UntrustedRoot == Cert(<<"U">>, <<"U">>, 9, "kU", "kU", <<>>)
Inter         == Cert(<<"U">>, <<"I">>, 4, "kI", "kU", <<>>)
EndEntity     == Cert(<<"U">>, <<"E", "E">>, 2, "kEE", "kU", <<>>)
Leaf          == Cert(<<"I">>, <<"L">>, 6, "kL", "kI", <<>>)

\* A PEM block by its type and, for a CERTIFICATE block, the certificate its
\* bytes parse to (NilCert when x509.ParseCertificate fails).
PemBlock(type, cert) == [type |-> type, cert |-> cert]

PemBlocks ==
    {PemBlock("CERTIFICATE", UntrustedRoot), PemBlock("CERTIFICATE", Inter),
     PemBlock("CERTIFICATE", NilCert), PemBlock("PRIVATE KEY", NilCert)}

PemBuffers == UNION {[1..n -> PemBlocks] : n \in 0..MaxBlocks}

IsCertificateBlockAnyType(block) == TRUE

IsCertificateBlock(block) == block.type = "CERTIFICATE"

\* AddCertificatesFromPEM, the loop over pem.Decode: the pool and the error
\* it ends with, `added` counting the certificates added so far.
RECURSIVE AddPEMBlocks(_, _, _)
AddPEMBlocks(blocks, roots, added) ==
    IF blocks = <<>>
    THEN [roots |-> roots,
          err |-> IF added = 0 THEN "no certificates found in PEM data" ELSE "nil"]
    ELSE IF IsCertificateBlock(Head(blocks))
    THEN IF Head(blocks).cert = NilCert
         THEN [roots |-> roots, err |-> "failed to parse certificate"]
         ELSE AddPEMBlocks(Tail(blocks), roots \cup {Head(blocks).cert}, added + 1)
    ELSE AddPEMBlocks(Tail(blocks), roots, added)

\* VerifyChain, lines 303-312: what it returns for the chain cert.Verify
\* built (<<>> when it built none).
VerifyChainResultRootFirst(chain) ==
    IF chain = <<>>
    THEN [chain |-> <<>>, err |-> "chain verification failed"]
    ELSE [chain |-> [i \in 1..Len(chain) |-> chain[Len(chain) + 1 - i]],
          err |-> "nil"]

VerifyChainResult(chain) ==
    IF chain = <<>>
    THEN [chain |-> <<>>, err |-> "chain verification failed"]
    ELSE [chain |-> chain, err |-> "nil"]

NoCall == [none |-> TRUE]

\* A store from NewEmptyTrustStore or NewTrustStore; vloc holds the last
\* call made on it and, as `pending`, the last VerifyChain call that failed.
StoreInit ==
    /\ CacheInit
    /\ LibIdle
    /\ vpc = "none"
    /\ vin = [kind |-> "none"]
    /\ result = [none |-> TRUE]
    /\ rawErr = "nil"
    /\ steps = <<>>
    /\ contacted = <<>>
    /\ vloc = [op |-> "new", pending |-> NoCall]
    /\ store \in {NewEmptyTrustStore, NewTrustStore(FALSE)}

AddCertificate(cert) ==
    /\ Len(store.rootCerts) < MaxRootCerts
    /\ store' = IF cert = NilCert THEN store
                ELSE [store EXCEPT !.roots = @ \cup {cert},
                                   !.rootCerts = Append(@, cert)]
    /\ vloc' = [op |-> "AddCertificate", pending |-> vloc.pending]

AddCertificatesFromPEM(buf) ==
    LET r == AddPEMBlocks(buf, store.roots, 0) IN
    /\ store' = [store EXCEPT !.roots = r.roots]
    /\ vloc' = [op |-> "AddCertificatesFromPEM", buf |-> buf, err |-> r.err,
                before |-> store.roots, pending |-> vloc.pending]

CallVerifyChain(cert, intermediates) ==
    LET r == IF cert = NilCert
             THEN [chain |-> <<>>, err |-> "certificate is nil"]
             ELSE VerifyChainResult(
                      VerifyChain(cert, intermediates, store.roots, now))
        call == [cert |-> cert, intermediates |-> intermediates]
    IN
    /\ vloc' = [op |-> "VerifyChain", cert |-> cert,
                intermediates |-> intermediates,
                chain |-> r.chain, err |-> r.err,
                retry |-> vloc.pending = call,
                pending |-> IF r.err # "nil" THEN call ELSE NoCall]
    /\ store' = store

StoreNext ==
    \/ \E c \in {NilCert, UntrustedRoot, Inter} : AddCertificate(c)
    \/ \E buf \in PemBuffers : AddCertificatesFromPEM(buf)
    \/ \E c \in {NilCert, EndEntity, Leaf, UntrustedRoot, CertA},
          is \in SUBSET {Inter} : CallVerifyChain(c, is)

StoreStep ==
    /\ StoreNext
    /\ UNCHANGED <<now, entries, pc, tkey, got, seen, ret, hist>>
    /\ UNCHANGED <<vpc, vin, result, rawErr, steps, contacted>>
    /\ UNCHANGED libVars

StoreSpec == StoreInit /\ [][StoreStep]_vars

---------------------------------------------------------------------------
(* Claims about the trust store, checked under StoreSpec *)

ChainCalled == vloc.op = "VerifyChain"

\* C14: VerifyChain succeeds only with a chain that starts at the certificate
\* and ends at a certificate of the root pool at the time of the call, each
\* element issued by the next and the ones in between taken from the
\* intermediates; with no issuer in the pool and none reachable it fails,
\* whatever intermediates are given; a certificate issued directly by a
\* certificate of the pool gets the two-element chain (certificate, root).
C14_ChainEndsAtTrustedRoot ==
    ChainCalled =>
        LET chain == vloc.chain n == Len(vloc.chain) IN
        /\ (vloc.err = "nil") <=> (n > 0)
        /\ n > 0 =>
              /\ chain[1] = vloc.cert
              /\ chain[n] \in store.roots
              /\ \A i \in 1..(n - 1) : Issued(chain[i + 1], chain[i])
              /\ \A i \in 2..(n - 1) : chain[i] \in vloc.intermediates
        /\ store.roots = {} => n = 0
        /\ (vloc.cert # NilCert /\ vloc.cert \notin store.roots
              /\ \E r \in store.roots : Issued(r, vloc.cert)) =>
              /\ n = 2
              /\ chain[2] \in store.roots
              /\ Issued(chain[2], vloc.cert)

\* The call that failed while the pool lacked the signing root, made again
\* after the root was added, returns (end entity, root).
C14_Witness ==
    /\ ChainCalled
    /\ vloc.retry
    /\ vloc.chain = <<EndEntity, UntrustedRoot>>

PemCalled == vloc.op = "AddCertificatesFromPEM"

\* The certificates of the CERTIFICATE blocks among the first n blocks.
CertificatesOf(buf, n) ==
    {buf[i].cert : i \in {j \in 1..n : /\ buf[j].type = "CERTIFICATE"
                                       /\ buf[j].cert # NilCert}}

\* The position of the first CERTIFICATE block that does not parse, or one
\* past the end of the buffer.
FirstUnparseable(buf) ==
    LET bad == {i \in 1..Len(buf) : /\ buf[i].type = "CERTIFICATE"
                                    /\ buf[i].cert = NilCert}
    IN  IF bad = {} THEN Len(buf) + 1 ELSE Min(bad)

TrustedRoot(cert) == VerifyChain(cert, {}, store.roots, now) = <<cert>>

\* C17 as stated: after AddCertificatesFromPEM(buf) the pool has grown by the
\* certificate of every CERTIFICATE block of buf and by nothing else, each is
\* accepted as a trusted root, and the call fails when buf has no certificate.
C17_EveryCertificateBlockAdded ==
    PemCalled =>
        /\ store.roots = vloc.before \cup CertificatesOf(vloc.buf, Len(vloc.buf))
        /\ \A c \in CertificatesOf(vloc.buf, Len(vloc.buf)) : TrustedRoot(c)
        /\ (\A i \in 1..Len(vloc.buf) : vloc.buf[i].type # "CERTIFICATE") =>
              vloc.err # "nil"

\* C17 amended: AddCertificatesFromPEM(buf) adds the certificates of the
\* CERTIFICATE blocks in order, skipping blocks of other types, up to the
\* first CERTIFICATE block that does not parse: there it returns an error,
\* keeping what it added and adding nothing of the later blocks.  Every
\* certificate added is accepted as a trusted root.  It also fails, adding
\* nothing, when buf holds no CERTIFICATE block.
C17_CertificateBlocksAddedUntilParseError ==
    PemCalled =>
        LET stop == FirstUnparseable(vloc.buf)
            good == CertificatesOf(vloc.buf, stop - 1)
        IN
        /\ store.roots = vloc.before \cup good
        /\ \A c \in good : TrustedRoot(c)
        /\ vloc.err = IF stop <= Len(vloc.buf) THEN "failed to parse certificate"
                      ELSE IF good = {} THEN "no certificates found in PEM data"
                      ELSE "nil"

\* A buffer with a private key and a certificate, read into an empty pool.
C17_Witness ==
    /\ PemCalled
    /\ vloc.before = {}
    /\ vloc.buf = <<PemBlock("PRIVATE KEY", NilCert),
                    PemBlock("CERTIFICATE", UntrustedRoot)>>
    /\ vloc.err = "nil"
    /\ store.roots = {UntrustedRoot}

\* C29: the certificates RootCerts returns, which the XMLDSig validation
\* trusts, are those of the pool VerifyChain uses, after construction and
\* any sequence of AddCertificate and AddCertificatesFromPEM calls.
C29_RootCertsArePoolCertificates ==
    {store.rootCerts[i] : i \in 1..Len(store.rootCerts)} = store.roots

---------------------------------------------------------------------------
(* VerificationResult API: a caller assigns the check fields and calls      *)
(* AddError, AddWarning and ComputeValidity in any order (ResultSpec)      *)

MaxMsgs == 2

Messages == {"m1", "m2"}

CheckFields == {"signatureFound", "signatureValid", "certChainValid", "notRevoked"}

\* vpc names the last call; vloc remembers valid as AddError last found it.
ResultInit ==
    /\ CacheInit
    /\ LibIdle
    /\ vpc = "r_new"
    /\ vin = [kind |-> "none"]
    /\ result = NewVerificationResult
    /\ rawErr = "nil"
    /\ steps = <<>>
    /\ contacted = <<>>
    /\ vloc = [wasValid |-> FALSE]
    /\ store = [none |-> TRUE]

ResAddError(msg) ==
    /\ Len(result.errors) < MaxMsgs
    /\ result' = AddError(result, msg)
    /\ vloc' = [wasValid |-> result.valid]
    /\ vpc' = "r_error"

ResAddWarning(msg) ==
    /\ Len(result.warnings) < MaxMsgs
    /\ result' = AddWarning(result, msg)
    /\ vloc' = vloc
    /\ vpc' = "r_warning"

ResComputeValidity ==
    /\ result' = ComputeValidity(result)
    /\ vloc' = vloc
    /\ vpc' = "r_compute"

\* A verifier assigns a check field, as in result.SignatureValid = true.
ResSetCheck(field, value) ==
    /\ result' = [result EXCEPT ![field] = value]
    /\ vloc' = vloc
    /\ vpc' = "r_set"

ResultNext ==
    \/ \E m \in Messages : ResAddError(m)
    \/ \E m \in Messages : ResAddWarning(m)
    \/ ResComputeValidity
    \/ \E f \in CheckFields, b \in BOOLEAN : ResSetCheck(f, b)

ResultStep ==
    /\ ResultNext
    /\ UNCHANGED <<now, entries, pc, tkey, got, seen, ret, hist>>
    /\ UNCHANGED <<vin, rawErr, steps, contacted, store>>
    /\ UNCHANGED libVars

ResultSpec == ResultInit /\ [][ResultStep]_vars

\* C15: a call of AddError leaves valid = false whatever it was before and
\* appends the message; while errors is non-empty no AddWarning and no
\* ComputeValidity makes valid true; AddWarning appends to warnings and
\* changes no other field of the result.
C15_ErrorSticksWarningFrames ==
    [][/\ vpc' = "r_error" =>
            /\ ~result'.valid
            /\ Len(result'.errors) = Len(result.errors) + 1
       /\ (result.errors # <<>> /\ vpc' \in {"r_warning", "r_compute"}) =>
            ~result'.valid
       /\ result'.errors # <<>> => ~result'.valid
       /\ vpc' = "r_warning" =>
            /\ Len(result'.warnings) = Len(result.warnings) + 1
            /\ \A f \in DOMAIN result \ {"warnings"} : result'[f] = result[f]
      ]_vars

\* AddError was called on a result that was valid, and a later
\* ComputeValidity with every check true and a warning added left it invalid.
C15_Witness ==
    /\ vpc = "r_compute"
    /\ vloc.wasValid
    /\ \A f \in CheckFields : result[f]
    /\ result.warnings # <<>>
    /\ result.errors # <<>>
    /\ ~result.valid

---------------------------------------------------------------------------
(* Further claims about the verifiers, checked under VerifySpec *)

\* C16: in every result a verifier returns, XML or PDF, a signer that is
\* set was derived from a certificate c the verifier parsed, and carries c's
\* validity window and serial number: valid_from = c.notBefore, valid_to =
\* c.notAfter, serial_number = c.serialNumber as a decimal string.
C16_SignerFromParsedCertificate ==
    (Done /\ result.signer # NoSigner) =>
        /\ "cert" \in DOMAIN vloc
        /\ vloc.cert # NilCert
        /\ result.signer.validFrom = vloc.cert.notBefore
        /\ result.signer.validTo = vloc.cert.notAfter
        /\ result.signer.serialNumber = DecString(vloc.cert.serial)

\* C19: the temporary file of a PDF verification is written and closed when
\* the tool is invoked against it, and on every return that follows its
\* creation (write failure, tool failure or timeout, no signature, success)
\* it has been removed.
C19_TempFileClosedThenRemoved ==
    vin.kind = "pdf" =>
        /\ vpc = "p_run" =>
              (vloc.tmp.exists /\ vloc.tmp.written /\ ~vloc.tmp.open)
        /\ "ranOn" \in DOMAIN vloc =>
              (vloc.ranOn.exists /\ vloc.ranOn.written /\ ~vloc.ranOn.open)
        /\ (Done /\ vloc.created) => (~vloc.tmp.exists /\ ~vloc.tmp.open)
        /\ (Done /\ ~vloc.created) => ~vloc.tmp.exists

\* The tool was run on the file and failed without output.
C19_Witness ==
    /\ Done
    /\ vin.kind = "pdf"
    /\ "ranOn" \in DOMAIN vloc
    /\ vloc.ranOn.exists
    /\ rawErr = "exit error"
    /\ ~vloc.tmp.exists

\* C20: when the pdfsig tool is missing, the result Verify returns carries
\* the tool-unavailable error and a warning with the install instructions.
C20_ToolMissingGivesInstructions ==
    (Done /\ vin.kind = "pdf" /\ ~store.pdfsigAvailable) =>
        /\ rawErr = "ErrToolUnavailable"
        /\ result.errors # <<>>
        /\ HasWarning(InstallInstructions)

\* The revocation check of the request was answered from the cache.
AnsweredFromCache == "revoked" \in DOMAIN vloc

\* C27: a CheckRevocation answered from the cache returns, with no error, the
\* not-revoked value that the call which asked the responder returned and
\* cached: Good stays not-revoked, Revoked stays revoked.
C27_CacheAnswerIsResponderAnswer ==
    AnsweredFromCache =>
        /\ vloc.rev.err = "nil"
        /\ vloc.rev.notRevoked = entries[certCacheKey(vloc.cert)].notRevoked

---------------------------------------------------------------------------
(* Functions of the signature packages applied to one input (FunctionSpec)  *)

MaxReportLines == 4

\* PDFVerifier.Verify from the parsing of stdout on: the result for a report.
ReportResult(report) ==
    LET output == ParsePDFSigOutput(report)
        r == [NewVerificationResult EXCEPT !.format = "pdf"]
    IN  IF output.signatureCount = 0
        THEN AddError(r, "no signatures found in PDF")
        ELSE MapPDFSignature(r, output)

\* An InvoiceType string: the letters of `word`, those at the positions in
\* `upper` written in capitals.
Letters(word) ==
    CASE word = "replacement" -> 11
      [] word = "adjustment"  -> 10
      [] word = "normal"      -> 6

\* parseInvoiceType: a switch over the spellings "Replacement", "replacement",
\* "REPLACEMENT" and "Adjustment", "adjustment", "ADJUSTMENT".
parseInvoiceType(s) ==
    CASE s.word = "replacement" /\ s.upper \in {{1}, {}, 1..Letters(s.word)}
              -> "Replacement"
      [] s.word = "adjustment" /\ s.upper \in {{1}, {}, 1..Letters(s.word)}
              -> "Adjustment"
      [] OTHER -> "Normal"

MaxElems == 4

\* The element names of the documents given to Extract.
Labels ==
    {Seg("", "Signature"), Seg("ds", "Signature"), Seg("", "Invoice"),
     Seg("", "HDon"), Seg("", "Level")}

\* a is element i or one of its ancestors.
RECURSIVE OnPathToRoot(_, _, _)
OnPathToRoot(parent, a, i) ==
    IF i = 0 THEN FALSE
    ELSE a = i \/ OnPathToRoot(parent, a, parent[i])

\* The parent of each of n elements numbered in document order: an element
\* opens inside the previous one or inside one of its ancestors.
DocumentOrders(n) ==
    {parent \in [1..n -> 0..(n - 1)] :
        /\ parent[1] = 0
        /\ \A i \in 2..n : parent[i] # 0 /\ OnPathToRoot(parent, parent[i], i - 1)}

\* What doc.ReadFromBytes gives for well-formed data with a root element.
ParsedDoc(parent, label) ==
    XmlDoc([i \in DOMAIN parent |-> Elem(parent[i], label[i].space, label[i].tag)])

\* A call not made yet.
Call(fn, in) == [fn |-> fn, in |-> in, done |-> FALSE]

FunctionInit ==
    /\ CacheInit
    /\ VerifyIdle
    /\ registry = <<>>
    /\ batch = [none |-> TRUE]
    /\ \/ \E n \in 0..MaxReportLines :
            \E report \in [1..n -> ReportLines] :
              applied = Call("ReportResult", report)
       \/ \E w \in {"replacement", "adjustment", "normal"} :
            \E u \in SUBSET (1..Letters(w)) :
              applied = Call("parseInvoiceType", [word |-> w, upper |-> u])
       \/ \E n \in 1..MaxElems :
            \E parent \in DocumentOrders(n) :
              \E label \in [1..n -> Labels] :
                applied = Call("Extract", ParsedDoc(parent, label))
       \/ \E doc \in {DocMalformed, DocEmpty} : applied = Call("Extract", doc)

ApplyReportResult ==
    /\ applied.fn = "ReportResult"
    /\ ~applied.done
    /\ applied' = [fn |-> applied.fn, in |-> applied.in, done |-> TRUE,
                   out |-> ReportResult(applied.in)]

ApplyParseInvoiceType ==
    /\ applied.fn = "parseInvoiceType"
    /\ ~applied.done
    /\ applied' = [fn |-> applied.fn, in |-> applied.in, done |-> TRUE,
                   out |-> parseInvoiceType(applied.in)]

ApplyExtract ==
    /\ applied.fn = "Extract"
    /\ ~applied.done
    /\ applied' = [fn |-> applied.fn, in |-> applied.in, done |-> TRUE,
                   out |-> Extract(applied.in)]

FunctionNext ==
    \/ ApplyReportResult
    \/ ApplyParseInvoiceType
    \/ ApplyExtract

FunctionStep ==
    /\ FunctionNext
    /\ UNCHANGED <<now, entries, pc, tkey, got, seen, ret, hist>>
    /\ UNCHANGED verifyVars
    /\ UNCHANGED <<registry, batch>>

FunctionSpec == FunctionInit /\ [][FunctionStep]_vars

---------------------------------------------------------------------------
(* Claims about the functions, checked under FunctionSpec *)

Applied(fn) == applied.fn = fn /\ applied.done

\* The positions of the "Signature #N:" header lines of a report.
Headers(report) == {i \in 1..Len(report) : report[i].kind = "Signature #"}

\* The report cut after its first signature block.
FirstBlock(report) ==
    LET later == Headers(report) \ {Min(Headers(report))}
    IN  IF later = {} THEN report
        ELSE SubSeq(report, 1, Min(later) - 1)

SeveralSignatures == "PDF contains several signatures, only first verified"

WithoutWarning(ws, msg) == SelectSeq(ws, LAMBDA w : w # msg)

\* C21: for a report with N >= 1 signature blocks the result is the one the
\* first block alone gives: signature_valid, cert_chain_valid, signer,
\* signed_at, errors and valid are those of the report cut after its first
\* block, and the warnings differ by the only-first-verified warning, present
\* exactly when N > 1.
C21_FirstBlockOnly ==
    (Applied("ReportResult") /\ Headers(applied.in) # {}) =>
        LET whole == applied.out
            first == ReportResult(FirstBlock(applied.in))
        IN
        /\ whole.signatureFound
        /\ whole.signatureValid = first.signatureValid
        /\ whole.certChainValid = first.certChainValid
        /\ whole.signer = first.signer
        /\ whole.signedAt = first.signedAt
        /\ whole.errors = first.errors
        /\ whole.valid = first.valid
        /\ WithoutWarning(whole.warnings, SeveralSignatures) = first.warnings
        /\ (Cardinality(Headers(applied.in)) > 1) <=>
              (\E i \in 1..Len(whole.warnings) : whole.warnings[i] = SeveralSignatures)

\* A valid, trusted first signature followed by a second block without any
\* verdict: the result is valid and warns about the second signature.
C21_Witness ==
    /\ Applied("ReportResult")
    /\ Cardinality(Headers(applied.in)) = 2
    /\ Len(applied.in) = 4
    /\ applied.in[4].kind = "Signature #"
    /\ applied.out.valid
    /\ \E i \in 1..Len(applied.out.warnings) :
          applied.out.warnings[i] = SeveralSignatures

\* C24: invoice-type strings are case-folded before matching: every casing of
\* "replacement" gives Replacement, every casing of "adjustment" gives
\* Adjustment, every other string gives Normal.
C24_TypeCaseFolded ==
    Applied("parseInvoiceType") =>
        applied.out = CASE applied.in.word = "replacement" -> "Replacement"
                        [] applied.in.word = "adjustment"  -> "Adjustment"
                        [] OTHER                           -> "Normal"

\* The elements of a document whose local name is Signature, under any prefix.
Signatures(doc) == {i \in 1..Len(doc.elems) : doc.elems[i].tag = "Signature"}

\* The direct-path probes that select an element of the document.
ProbeHits(doc) ==
    {i \in 1..Len(searchPaths) : FindElement(doc, 1, searchPaths[i]) # 0}

ProviderOfRoot(tag) ==
    CASE tag = "SInvoice" -> "VNPT"
      [] tag = "HDon" -> "Viettel"
      [] tag = "EInvoice" -> "FPT"
      [] tag = "HoaDon" -> "MISA"
      [] tag = "Invoice" -> "TCT"
      [] tag = "Invoices" -> "TCT"
      [] OTHER -> "Unknown"

---------------------------------------------------------------------------
(* Provider adapters and the parser Registry (internal/parser/xml)         *)
(* A buffer is a sequence of pieces: the opening tag of an element, or a   *)
(* run of text.  The first tag is the root element, the tags after it are  *)
(* its children, and every Invoice element carries its InvoiceNo.          *)

MaxTokens == 3
MaxRegistered == 2

Tokens == {"<SInvoice>", "<HDon>", "<EInvoice>", "<Invoice>", "<Invoices>",
           "<TaxID>", "<MST>", "vnpt"}

\* bytes.BytesContain(content, piece)
BytesContain(content, piece) == \E i \in 1..Len(content) : content[i] = piece

VNPTCanParse(content) ==
    \/ BytesContain(content, "<SInvoice>")
    \/ BytesContain(content, "vnpt")
    \/ BytesContain(content, "VNPT")

ViettelCanParse(content) ==
    \/ BytesContain(content, "<HDon>")
    \/ BytesContain(content, "<KHMSHDon>")
    \/ BytesContain(content, "viettel")
    \/ BytesContain(content, "sinvoice")

FPTCanParse(content) ==
    \/ BytesContain(content, "<EInvoice>")
    \/ BytesContain(content, "fpt")
    \/ BytesContain(content, "FPT")

MISACanParse(content) ==
    \/ BytesContain(content, "<MST>")
    \/ BytesContain(content, "<TenHang>")
    \/ BytesContain(content, "MISA")
    \/ BytesContain(content, "misa")

TCTCanParse(content) ==
    /\ BytesContain(content, "<Invoice>")
    /\ BytesContain(content, "<TaxID>")
    /\ ~BytesContain(content, "vnpt")
    /\ ~BytesContain(content, "<MST>")
    /\ ~BytesContain(content, "<SInvoice>")

\* An Adapter: a built-in one of a provider, or one the caller wrote, which
\* answers every sniff with `accepts`; seq tells two caller objects apart
\* (the n-th adapter registered has seq n).
BuiltIn(provider) ==
    [provider |-> provider, custom |-> FALSE, accepts |-> FALSE, seq |-> 0]

Providers == {"vnpt", "viettel", "fpt", "misa", "tct"}

CustomAdapters(seq) ==
    {[provider |-> "tct", custom |-> TRUE, accepts |-> TRUE, seq |-> seq],
     [provider |-> "tct", custom |-> TRUE, accepts |-> FALSE, seq |-> seq],
     [provider |-> "vnpt", custom |-> TRUE, accepts |-> TRUE, seq |-> seq]}

NoAdapter == [provider |-> "unknown", custom |-> FALSE, accepts |-> FALSE, seq |-> 0]

\* Adapter.CanParse
CanParse(a, content) ==
    IF a.custom THEN a.accepts
    ELSE CASE a.provider = "vnpt"    -> VNPTCanParse(content)
           [] a.provider = "viettel" -> ViettelCanParse(content)
           [] a.provider = "fpt"     -> FPTCanParse(content)
           [] a.provider = "misa"    -> MISACanParse(content)
           [] a.provider = "tct"     -> TCTCanParse(content)
           [] OTHER                  -> FALSE

\* NewRegistry: the order the adapters are probed in.
NewRegistry ==
    <<BuiltIn("vnpt"), BuiltIn("viettel"), BuiltIn("fpt"), BuiltIn("misa"),
      BuiltIn("tct")>>

\* Registry.Detect: the first adapter whose sniff matches.
Detect(adapters, content) ==
    LET hits == {i \in 1..Len(adapters) : CanParse(adapters[i], content)}
    IN  IF hits = {}
        THEN [adapter |-> NoAdapter,
              err |-> "unknown XML format, no matching adapter found"]
        ELSE [adapter |-> adapters[Min(hits)], err |-> "nil"]

\* Registry.GetAdapter: the first adapter of that provider, NoAdapter for nil.
GetAdapter(adapters, provider) ==
    LET hits == {i \in 1..Len(adapters) : adapters[i].provider = provider}
    IN  IF hits = {} THEN NoAdapter ELSE adapters[Min(hits)]

Appended(adapters, a) == Append(adapters, a)

\* Registry.RegisterAdapter: append([]Adapter{a}, r.adapters...)
Prepended(adapters, a) == <<a>> \o adapters

\* xml.Unmarshal into a struct whose XMLName names `root`: the index of the
\* first start element when it has that name, 0 for the error.
Unmarshal(content, root) ==
    LET tags == {i \in 1..Len(content) : content[i] # "vnpt"}
    IN  IF tags = {} THEN 0
        ELSE IF content[Min(tags)] = root THEN Min(tags) ELSE 0

NoInvoice == [provider |-> "unknown", rawXML |-> <<>>, element |-> 0]

ParseFailed(msg) == [invoice |-> NoInvoice, err |-> msg]

ConvertInvoiceFragment(provider, element, rawXML) ==
    [invoice |-> [provider |-> provider,
                  rawXML |-> SubSeq(rawXML, element, Len(rawXML)),
                  element |-> element],
     err |-> "nil"]

\* convertInvoice of each adapter: the invoice built from the element
\* unmarshalled, with RawXML: rawXML.
ConvertInvoice(provider, element, rawXML) ==
    [invoice |-> [provider |-> provider, rawXML |-> rawXML, element |-> element],
     err |-> "nil"]

\* VNPTAdapter, ViettelAdapter, FPTAdapter and MISAAdapter Parse.
SingleRootParse(provider, root, content) ==
    LET inv == Unmarshal(content, root)
    IN  IF inv = 0 THEN ParseFailed("failed to parse XML")
        ELSE ConvertInvoice(provider, inv, content)

\* TCTAdapter.Parse: a single Invoice first, then the first of Invoices.
TCTParse(content) ==
    LET single == Unmarshal(content, "<Invoice>")
        multi  == Unmarshal(content, "<Invoices>")
        invoices == {i \in (multi + 1)..Len(content) : content[i] = "<Invoice>"}
    IN  IF single # 0 THEN ConvertInvoice("tct", single, content)
        ELSE IF multi = 0 THEN ParseFailed("failed to parse XML")
        ELSE IF invoices = {} THEN ParseFailed("no invoices found")
        ELSE ConvertInvoice("tct", Min(invoices), content)

\* Adapter.Parse; a caller's adapter returns (nil, nil) as the test's mock does.
AdapterParse(a, content) ==
    IF a.custom THEN ParseFailed("nil")
    ELSE CASE a.provider = "vnpt"    -> SingleRootParse("vnpt", "<SInvoice>", content)
           [] a.provider = "viettel" -> SingleRootParse("viettel", "<HDon>", content)
           [] a.provider = "fpt"     -> SingleRootParse("fpt", "<EInvoice>", content)
           [] a.provider = "misa"    -> SingleRootParse("misa", "<Invoice>", content)
           [] a.provider = "tct"     -> TCTParse(content)

\* Registry.Parse: Detect, then the adapter's Parse on the same content.
RegistryParse(adapters, content) ==
    LET d == Detect(adapters, content)
    IN  IF d.err # "nil" THEN ParseFailed(d.err)
        ELSE AdapterParse(d.adapter, content)

\* One registry and one buffer; the calls are made on them in any order.
RegistryInit ==
    /\ CacheInit
    /\ VerifyIdle
    /\ batch = [none |-> TRUE]
    /\ registry = NewRegistry
    /\ \E n \in 0..MaxTokens :
          \E b \in [1..n -> Tokens] : applied = [fn |-> "none", in |-> b]

Registered == Len(registry) - Len(NewRegistry)

CallRegisterAdapter(a) ==
    /\ Registered < MaxRegistered
    /\ registry' = Prepended(registry, a)
    /\ applied' = [fn |-> "RegisterAdapter", in |-> applied.in, arg |-> a]

CallDetect ==
    /\ applied' = [fn |-> "Detect", in |-> applied.in,
                   out |-> Detect(registry, applied.in)]
    /\ UNCHANGED registry

CallGetAdapter(provider) ==
    /\ applied' = [fn |-> "GetAdapter", in |-> applied.in, arg |-> provider,
                   out |-> GetAdapter(registry, provider)]
    /\ UNCHANGED registry

CallRegistryParse ==
    /\ applied' = [fn |-> "Registry.Parse", in |-> applied.in,
                   out |-> RegistryParse(registry, applied.in)]
    /\ UNCHANGED registry

CallAdapterParse(provider) ==
    /\ applied' = [fn |-> "Adapter.Parse", in |-> applied.in, arg |-> provider,
                   out |-> AdapterParse(BuiltIn(provider), applied.in)]
    /\ UNCHANGED registry

RegistryNext ==
    \/ \E a \in CustomAdapters(Registered + 1) : CallRegisterAdapter(a)
    \/ CallDetect
    \/ \E p \in Providers : CallGetAdapter(p)
    \/ CallRegistryParse
    \/ \E p \in Providers : CallAdapterParse(p)

RegistryStep ==
    /\ RegistryNext
    /\ UNCHANGED <<now, entries, pc, tkey, got, seen, ret, hist>>
    /\ UNCHANGED verifyVars
    /\ UNCHANGED batch

RegistrySpec == RegistryInit /\ [][RegistryStep]_vars

---------------------------------------------------------------------------
(* Claims about the adapters and the registry, checked under RegistrySpec *)

\* The root element of a buffer: its first tag, "" when it has none.
Root(content) ==
    LET tags == {i \in 1..Len(content) : content[i] # "vnpt"}
    IN  IF tags = {} THEN "" ELSE content[Min(tags)]

\* C22: dispatch over the built-in registry selects the adapter of the
\* document's root element: SInvoice gives VNPT, HDon gives Viettel, EInvoice
\* gives FPT, Invoice or Invoices with a TaxID gives TCT, whatever else the
\* buffer holds.
C22_RootElementSelectsAdapter ==
    (applied.fn = "Detect" /\ registry = NewRegistry) =>
        LET root == Root(applied.in)
            provider == applied.out.adapter.provider
        IN
        /\ root = "<SInvoice>" => provider = "vnpt"
        /\ root = "<HDon>" => provider = "viettel"
        /\ root = "<EInvoice>" => provider = "fpt"
        /\ (root \in {"<Invoice>", "<Invoices>"}
              /\ BytesContain(applied.in, "<TaxID>")) => provider = "tct"

\* The place of an adapter in the probing order the registry promises: the
\* caller's adapters first, the latest registered first, then VNPT, Viettel,
\* FPT, MISA, TCT.
Rank(a) ==
    IF a.custom THEN 0 - a.seq
    ELSE CASE a.provider = "vnpt"    -> 1
           [] a.provider = "viettel" -> 2
           [] a.provider = "fpt"     -> 3
           [] a.provider = "misa"    -> 4
           [] a.provider = "tct"     -> 5

Adapters == {registry[i] : i \in 1..Len(registry)}

FirstByRank(S) == CHOOSE a \in S : \A b \in S : Rank(a) <= Rank(b)

\* C23: the registry holds the caller's adapters, latest registered first,
\* followed by VNPT, Viettel, FPT, MISA, TCT in that order; Detect returns
\* the first adapter in that order whose sniff matches and GetAdapter the
\* first one of the provider asked for, so a registered adapter overrides
\* the built-in of its provider.
C23_RegisteredFirstBuiltInsInOrder ==
    LET n == Registered IN
    /\ n >= 0
    /\ SubSeq(registry, n + 1, n + 5) =
          <<BuiltIn("vnpt"), BuiltIn("viettel"), BuiltIn("fpt"),
            BuiltIn("misa"), BuiltIn("tct")>>
    /\ \A i \in 1..n : registry[i].custom /\ registry[i].seq = n - i + 1
    /\ applied.fn = "Detect" =>
          LET matching == {a \in Adapters : CanParse(a, applied.in)}
          IN  IF matching = {}
              THEN applied.out.err # "nil" /\ applied.out.adapter = NoAdapter
              ELSE applied.out.err = "nil"
                   /\ applied.out.adapter = FirstByRank(matching)
    /\ applied.fn = "GetAdapter" =>
          applied.out =
              FirstByRank({a \in Adapters : a.provider = applied.arg})

\* Two adapters registered for TCT: GetAdapter returns the second one.
C23_Witness ==
    /\ Registered = 2
    /\ registry[2].provider = "tct"
    /\ applied.fn = "GetAdapter"
    /\ applied.arg = "tct"
    /\ applied.out.custom
    /\ applied.out.seq = 2

\* C25: every invoice a built-in adapter's Parse returns, directly or through
\* the registry, holds in raw_xml the input buffer, piece for piece.
C25_RawXMLIsInput ==
    (applied.fn \in {"Registry.Parse", "Adapter.Parse"}
        /\ applied.out.invoice # NoInvoice) =>
        applied.out.invoice.rawXML = applied.in

\* The TCT adapter given an Invoices document with text before the root and
\* one Invoice in it: the invoice returned is that of the inner element.
C25_Witness ==
    /\ applied.fn = "Adapter.Parse"
    /\ applied.arg = "tct"
    /\ Root(applied.in) = "<Invoices>"
    /\ applied.out.err = "nil"
    /\ applied.out.invoice.element = 3
    /\ applied.out.invoice.rawXML = applied.in

---------------------------------------------------------------------------
(* Processor.ProcessBatch (pkg/invoicelib/processor.go)                    *)
(* One call: the caller's goroutine starts a goroutine per input and then  *)
(* receives from the error channel.  An input is given by whether Process  *)
(* fails on it; the error of input i is i, no error is 0, the result of    *)
(* input i is i and a nil result is 0.                                     *)

MaxInputs == 3

\* results := make(..., len(inputs)); errCh := make(chan error, len(inputs))
NewBatch(inputs) ==
    [inputs   |-> inputs,
     results  |-> [i \in 1..Len(inputs) |-> 0],
     errCh    |-> <<>>,
     capacity |-> Len(inputs),
     started  |-> 0,
     gpc      |-> [i \in 1..Len(inputs) |-> "unborn"],
     firstErr |-> 0,
     received |-> 0,
     mpc      |-> "start"]

BatchInit ==
    /\ CacheInit
    /\ VerifyIdle
    /\ registry = <<>>
    /\ applied = [none |-> TRUE]
    /\ \E n \in 0..MaxInputs :
          \E inputs \in [1..n -> BOOLEAN] : batch = NewBatch(inputs)

\* for i, input := range inputs { go func(idx, r) {...}(i, input) }
BatchStart ==
    /\ batch.mpc = "start"
    /\ IF batch.started < Len(batch.inputs)
       THEN batch' = [batch EXCEPT !.started = @ + 1,
                                   !.gpc[batch.started + 1] = "process"]
       ELSE batch' = [batch EXCEPT !.mpc = "wait"]

\* result, err := p.Process(ctx, r)
GoProcess(i) ==
    /\ batch.gpc[i] = "process"
    /\ batch' = [batch EXCEPT !.gpc[i] =
                    IF batch.inputs[i] THEN "send_err" ELSE "store"]

\* results[idx] = result
GoStore(i) ==
    /\ batch.gpc[i] = "store"
    /\ batch' = [batch EXCEPT !.results[i] = i, !.gpc[i] = "send_nil"]

\* errCh <- err; return   and   errCh <- nil: a send waits for room.
GoSend(i) ==
    /\ batch.gpc[i] \in {"send_err", "send_nil"}
    /\ Len(batch.errCh) < batch.capacity
    /\ batch' = [batch EXCEPT
                    !.errCh = Append(@, IF batch.gpc[i] = "send_err" THEN i ELSE 0),
                    !.gpc[i] = "done"]

WaitCountButOne(inputs) == Len(inputs) - 1

\* for range inputs: the number of receives.
WaitCount(inputs) == Len(inputs)

\* if err := <-errCh; err != nil && firstErr == nil { firstErr = err }
BatchReceive ==
    /\ batch.mpc = "wait"
    /\ batch.received < WaitCount(batch.inputs)
    /\ batch.errCh # <<>>
    /\ batch' = [batch EXCEPT
                    !.errCh = Tail(@),
                    !.received = @ + 1,
                    !.firstErr = IF Head(batch.errCh) # 0 /\ @ = 0
                                 THEN Head(batch.errCh) ELSE @]

\* return results, firstErr
BatchReturn ==
    /\ batch.mpc = "wait"
    /\ batch.received >= WaitCount(batch.inputs)
    /\ batch' = [batch EXCEPT !.mpc = "returned"]

BatchNext ==
    \/ BatchStart
    \/ \E i \in 1..MaxInputs : i <= Len(batch.inputs) /\ GoProcess(i)
    \/ \E i \in 1..MaxInputs : i <= Len(batch.inputs) /\ GoStore(i)
    \/ \E i \in 1..MaxInputs : i <= Len(batch.inputs) /\ GoSend(i)
    \/ BatchReceive
    \/ BatchReturn

BatchStep ==
    /\ BatchNext
    /\ UNCHANGED <<now, entries, pc, tkey, got, seen, ret, hist>>
    /\ UNCHANGED verifyVars
    /\ UNCHANGED <<registry, applied>>

BatchSpec == BatchInit /\ [][BatchStep]_vars

\* The scheduler runs every goroutine that can take a step, and Process
\* returns on every input.
BatchLiveSpec ==
    /\ BatchSpec
    /\ WF_vars((BatchStart \/ BatchReceive \/ BatchReturn) /\ BatchStep)
    /\ \A i \in 1..MaxInputs :
          WF_vars(/\ i <= Len(batch.inputs)
                  /\ GoProcess(i) \/ GoStore(i) \/ GoSend(i)
                  /\ BatchStep)

---------------------------------------------------------------------------
(* Claims about ProcessBatch, checked under BatchLiveSpec *)

BatchReturned == batch.mpc = "returned"

BlockedOnSend(i) ==
    /\ batch.gpc[i] \in {"send_err", "send_nil"}
    /\ Len(batch.errCh) >= batch.capacity

\* What the call has returned is right: every goroutine has run to its end,
\* results[i] is the result of input i or nil when Process failed on it, and
\* the error is non-nil exactly when some input failed, being the error of
\* one of them.
BatchReturnsRight ==
    BatchReturned =>
        /\ \A i \in 1..Len(batch.inputs) :
              /\ batch.gpc[i] = "done"
              /\ batch.results[i] = IF batch.inputs[i] THEN 0 ELSE i
        /\ batch.errCh = <<>>
        /\ (batch.firstErr # 0) <=> (\E i \in 1..Len(batch.inputs) : batch.inputs[i])
        /\ batch.firstErr # 0 => batch.inputs[batch.firstErr]

\* C30: ProcessBatch returns, and only after every input has been processed;
\* no goroutine is ever blocked on the error channel; results[i] is the
\* result for inputs[i] or nil when that input failed, and the error returned
\* is non-nil exactly when at least one input failed.
C30_BatchCompletes ==
    /\ [](BatchReturnsRight /\ \A i \in 1..Len(batch.inputs) : ~BlockedOnSend(i))
    /\ <>BatchReturned

\* Three inputs, the second and the third failing, the third's error received
\* first: the call has returned it next to the one result.
C30_Witness ==
    /\ BatchReturned
    /\ batch.inputs = <<FALSE, TRUE, TRUE>>
    /\ batch.results = <<1, 0, 0>>
    /\ batch.firstErr = 3

====
